---- MODULE Spec2Model ----
(***************************************************************************)
(* Hours-of-Service engine of truck-app: duty-status records of a daily    *)
(* ELD log, the rolling cycle calculator, the violation detector and the   *)
(* trip schedule generator (src/eld_logs/services.py), driven through the  *)
(* views of src/eld_logs/views.py and src/trips/views.py, and the rest     *)
(* stop planner of the route service (src/routes/services.py).             *)
(*                                                                         *)
(* Time is an integer number of minutes since 00:00 of date 0; a date is   *)
(* an integer day number, date d spanning minutes [1440 d, 1440 (d + 1)).  *)
(* Durations are minutes, so the code's hour limits appear multiplied by   *)
(* 60.  A null DateTimeField is NoTime.                                    *)
(***************************************************************************)
EXTENDS Integers, Sequences, FiniteSets, TLC

----------------------------------------------------------------------------
(* Bounds of the exploration.                                              *)

\* requests served over a whole behaviour
MaxRequests == 3
\* trips planned over a whole behaviour
MaxTrips == 1
\* last date for which the cycle calculator is queried
MaxDate == 8

----------------------------------------------------------------------------
(* Program constants.                                                      *)

DAILY_DRIVING_LIMIT == 11
DAILY_DUTY_LIMIT == 14
CYCLE_70_8_LIMIT == 70
CYCLE_60_7_LIMIT == 60
DAILY_OFF_DUTY_MINIMUM == 10
BREAK_REQUIREMENT_HOURS == 8
BREAK_MINIMUM_MINUTES == 30

MinutesPerHour == 60
MinutesPerDay == 1440

NoTime == -1
NoTrip == 0

----------------------------------------------------------------------------
(* Input domains.                                                          *)

Drivers == {"d1", "d2"}

\* Driver.cycle_type of the two drivers
cycle_type == [d \in Drivers |-> IF d = "d1" THEN "70_8" ELSE "60_7"]

DUTY_STATUS_CHOICES == {"off_duty", "sleeper_berth", "driving", "on_duty_not_driving"}

Dates == 0 .. MaxDate

\* dates on which a log is created directly
LogDates == {0, 1}

\* planned start dates of trips
StartDates == {0, 1}

\* drivers for whom trips are planned
TripDrivers == {"d1"}

\* start_time values a client sends to add_duty_record
StartTimes == {360, 2700}

\* values timezone.now() takes when a trip is started or completed
ClockTimes == {1000, 1300}

\* route.estimated_duration_hours, in minutes
TripMinutes == {30, 300}

LogKeys == Drivers \X Dates

----------------------------------------------------------------------------
(* Sequence and arithmetic helpers.                                        *)

Min(a, b) == IF a <= b THEN a ELSE b

Max(a, b) == IF a >= b THEN a ELSE b

\* Python int(a / b): truncation toward zero
IntDiv(a, b) == IF a >= 0 THEN a \div b ELSE -((-a) \div b)

InsertAt(s, p, e) == SubSeq(s, 1, p - 1) \o <<e>> \o SubSeq(s, p, Len(s))

\* DutyStatusRecord.Meta.ordering = ['eld_log', 'start_time']: the records of
\* a log are read in start_time order; the order of records with equal
\* start_time is left to the database, so every sorted position is possible.
InsertPositions(recs, rec) ==
    {p \in 1 .. Len(recs) + 1 :
        /\ \A i \in 1 .. p - 1 : recs[i].start_time <= rec.start_time
        /\ \A i \in p .. Len(recs) : recs[i].start_time >= rec.start_time}

Insertions(recs, rec) == {InsertAt(recs, p, rec) : p \in InsertPositions(recs, rec)}

RECURSIVE InsertAll(_, _)
InsertAll(arrs, news) ==
    IF news = <<>> THEN arrs
    ELSE InsertAll(UNION {Insertions(a, Head(news)) : a \in arrs}, Tail(news))

FilterStatus(recs, statuses) == SelectSeq(recs, LAMBDA r : r.duty_status \in statuses)

DutyStatuses == {"driving", "on_duty_not_driving"}

----------------------------------------------------------------------------
(* Records and logs.                                                       *)

DutyStatusRecord(status, start, end, auto) ==
    [duty_status |-> status, start_time |-> start, end_time |-> end, is_automatic |-> auto]

ELDLog(trip) ==
    [records |-> <<>>,
     trip |-> trip,
     total_drive_time |-> 0,
     total_duty_time |-> 0,
     total_off_duty_time |-> 0,
     total_sleeper_time |-> 0,
     has_driving_violation |-> FALSE,
     has_duty_violation |-> FALSE,
     violations |-> <<>>,
     is_certified |-> FALSE,
     certified_at |-> NoTime]

HOSViolation(type, severity, actual, limit) ==
    [violation_type |-> type, severity |-> severity, actual_value |-> actual, limit_value |-> limit]

\* the loop of _update_eld_log_totals over the records of a log
RECURSIVE TotalsLoop(_, _)
TotalsLoop(recs, acc) ==
    IF recs = <<>> THEN acc
    ELSE LET record == Head(recs)
             duration == record.end_time - record.start_time
             next == IF record.end_time = NoTime THEN acc
                     ELSE IF record.duty_status = "driving"
                          THEN [acc EXCEPT !.drive = @ + duration, !.duty = @ + duration]
                     ELSE IF record.duty_status = "on_duty_not_driving"
                          THEN [acc EXCEPT !.duty = @ + duration]
                     ELSE IF record.duty_status = "off_duty"
                          THEN [acc EXCEPT !.off = @ + duration]
                     ELSE IF record.duty_status = "sleeper_berth"
                          THEN [acc EXCEPT !.sleeper = @ + duration]
                     ELSE acc
         IN TotalsLoop(Tail(recs), next)

update_eld_log_totals(log) ==
    LET t == TotalsLoop(log.records, [drive |-> 0, duty |-> 0, off |-> 0, sleeper |-> 0])
    IN [log EXCEPT !.total_drive_time = t.drive,
                   !.total_duty_time = t.duty,
                   !.total_off_duty_time = t.off,
                   !.total_sleeper_time = t.sleeper]

----------------------------------------------------------------------------
(* Cycle window calculator.                                                *)

\* the inner loop of get_current_cycle_hours over the duty records of one log
RECURSIVE CycleRecordsLoop(_)
CycleRecordsLoop(recs) ==
    IF recs = <<>> THEN 0
    ELSE LET record == Head(recs)
         IN (IF record.end_time # NoTime THEN record.end_time - record.start_time ELSE 0)
            + CycleRecordsLoop(Tail(recs))

\* days_back without the cycle-type test: 8 days for every driver
days_back_same(driver) == 8

days_back(driver) == IF cycle_type[driver] = "70_8" THEN 8 ELSE 7

\* the outer loop of get_current_cycle_hours over the dates start_date .. date
RECURSIVE CycleLogsLoop(_, _, _, _)
CycleLogsLoop(L, driver, from, to) ==
    IF from > to THEN 0
    ELSE (IF <<driver, from>> \in DOMAIN L
          THEN CycleRecordsLoop(FilterStatus(L[<<driver, from>>].records, DutyStatuses))
          ELSE 0)
         + CycleLogsLoop(L, driver, from + 1, to)

\* total minutes (the code returns hours = minutes / 60)
get_current_cycle_hours(L, driver, date) ==
    CycleLogsLoop(L, driver, date - (days_back(driver) - 1), date)

----------------------------------------------------------------------------
(* Violation detector.  Each check returns the sequence of the violations  *)
(* it creates: empty, or one HOSViolation.                                 *)

RECURSIVE SumClosed(_)
SumClosed(recs) ==
    IF recs = <<>> THEN 0
    ELSE (IF Head(recs).end_time # NoTime
          THEN Head(recs).end_time - Head(recs).start_time ELSE 0)
         + SumClosed(Tail(recs))

\* the driving limit tested with >= : exactly 11 hours reported too
check_daily_driving_limit_inclusive(log) ==
    LET total_driving == SumClosed(FilterStatus(log.records, {"driving"}))
    IN IF total_driving >= DAILY_DRIVING_LIMIT * MinutesPerHour
       THEN <<HOSViolation("drive_11h", "violation", total_driving,
                           DAILY_DRIVING_LIMIT * MinutesPerHour)>>
       ELSE <<>>

check_daily_driving_limit(log) ==
    LET total_driving == SumClosed(FilterStatus(log.records, {"driving"}))
    IN IF total_driving > DAILY_DRIVING_LIMIT * MinutesPerHour
       THEN <<HOSViolation("drive_11h", "violation", total_driving,
                           DAILY_DRIVING_LIMIT * MinutesPerHour)>>
       ELSE <<>>

check_daily_duty_limit(log) ==
    LET duty_records == FilterStatus(log.records, DutyStatuses)
    IN IF duty_records = <<>> THEN <<>>
       ELSE LET first_duty == duty_records[1]
                last_duty == duty_records[Len(duty_records)]
                total_duty == last_duty.end_time - first_duty.start_time
            IN IF last_duty.end_time # NoTime /\ total_duty > DAILY_DUTY_LIMIT * MinutesPerHour
               THEN <<HOSViolation("duty_14h", "violation", total_duty,
                                   DAILY_DUTY_LIMIT * MinutesPerHour)>>
               ELSE <<>>

\* the cycle limit of 70 hours applied to every driver
check_cycle_limit_70(L, key) ==
    LET driver == key[1]
        current_cycle_hours == get_current_cycle_hours(L, driver, key[2])
        violation_type == IF cycle_type[driver] = "70_8" THEN "cycle_70h" ELSE "cycle_60h"
    IN IF current_cycle_hours > CYCLE_70_8_LIMIT * MinutesPerHour
       THEN <<HOSViolation(violation_type, "critical", current_cycle_hours,
                           CYCLE_70_8_LIMIT * MinutesPerHour)>>
       ELSE <<>>

check_cycle_limit(L, key) ==
    LET driver == key[1]
        current_cycle_hours == get_current_cycle_hours(L, driver, key[2])
        limit == IF cycle_type[driver] = "70_8" THEN CYCLE_70_8_LIMIT ELSE CYCLE_60_7_LIMIT
        violation_type == IF cycle_type[driver] = "70_8" THEN "cycle_70h" ELSE "cycle_60h"
    IN IF current_cycle_hours > limit * MinutesPerHour
       THEN <<HOSViolation(violation_type, "critical", current_cycle_hours,
                           limit * MinutesPerHour)>>
       ELSE <<>>

\* the loop of _check_break_requirement over the driving records in start order
RECURSIVE BreakLoop(_, _, _)
BreakLoop(recs, continuous_driving, last_break_time) ==
    IF recs = <<>> THEN <<>>
    ELSE LET record == Head(recs)
         IN IF record.end_time = NoTime
            THEN BreakLoop(Tail(recs), continuous_driving, last_break_time)
            ELSE LET reset == /\ last_break_time # NoTime
                              /\ record.start_time - last_break_time >= BREAK_MINIMUM_MINUTES
                     continuous == (IF reset THEN 0 ELSE continuous_driving)
                                   + (record.end_time - record.start_time)
                 IN IF continuous > BREAK_REQUIREMENT_HOURS * MinutesPerHour
                    THEN <<HOSViolation("rest_break", "violation", continuous,
                                        BREAK_REQUIREMENT_HOURS * MinutesPerHour)>>
                    ELSE BreakLoop(Tail(recs), continuous, record.end_time)

\* the break requirement without the reset: all the driving of the log counted
check_break_requirement_noreset(log) ==
    LET continuous == SumClosed(FilterStatus(log.records, {"driving"}))
    IN IF continuous > BREAK_REQUIREMENT_HOURS * MinutesPerHour
       THEN <<HOSViolation("rest_break", "violation", continuous,
                           BREAK_REQUIREMENT_HOURS * MinutesPerHour)>>
       ELSE <<>>

check_break_requirement(log) ==
    BreakLoop(FilterStatus(log.records, {"driving"}), 0, NoTime)

\* first record of order_by('-end_time'): a null end_time sorts first on a
\* database that puts NULL above every value (nulls_first) and last otherwise
LastByEndTime(recs, nulls_first) ==
    LET open == {i \in DOMAIN recs : recs[i].end_time = NoTime}
        closed == DOMAIN recs \ open
        pick == IF open # {} /\ (nulls_first \/ closed = {})
                THEN CHOOSE i \in open : TRUE
                ELSE CHOOSE i \in closed : \A j \in closed : recs[j].end_time <= recs[i].end_time
    IN recs[pick]

\* the rest requirement tested with <= : exactly 10 hours of rest reported
check_daily_rest_requirement_inclusive(L, key, nulls_first) ==
    LET previous_key == <<key[1], key[2] - 1>>
    IN IF previous_key \notin DOMAIN L THEN <<>>
       ELSE LET previous_duty == FilterStatus(L[previous_key].records, DutyStatuses)
                current_duty == FilterStatus(L[key].records, DutyStatuses)
            IN IF previous_duty = <<>> \/ current_duty = <<>> THEN <<>>
               ELSE LET last_duty_previous == LastByEndTime(previous_duty, nulls_first)
                        first_duty_current == current_duty[1]
                        rest == first_duty_current.start_time - last_duty_previous.end_time
                    IN IF /\ last_duty_previous.end_time # NoTime
                          /\ rest <= DAILY_OFF_DUTY_MINIMUM * MinutesPerHour
                       THEN <<HOSViolation("daily_rest", "violation", rest,
                                           DAILY_OFF_DUTY_MINIMUM * MinutesPerHour)>>
                       ELSE <<>>

check_daily_rest_requirement(L, key, nulls_first) ==
    LET previous_key == <<key[1], key[2] - 1>>
    IN IF previous_key \notin DOMAIN L THEN <<>>
       ELSE LET previous_duty == FilterStatus(L[previous_key].records, DutyStatuses)
                current_duty == FilterStatus(L[key].records, DutyStatuses)
            IN IF previous_duty = <<>> \/ current_duty = <<>> THEN <<>>
               ELSE LET last_duty_previous == LastByEndTime(previous_duty, nulls_first)
                        first_duty_current == current_duty[1]
                        rest == first_duty_current.start_time - last_duty_previous.end_time
                    IN IF /\ last_duty_previous.end_time # NoTime
                          /\ rest < DAILY_OFF_DUTY_MINIMUM * MinutesPerHour
                       THEN <<HOSViolation("daily_rest", "violation", rest,
                                           DAILY_OFF_DUTY_MINIMUM * MinutesPerHour)>>
                       ELSE <<>>

check_hos_violations(L, key, nulls_first) ==
    check_daily_driving_limit(L[key])
    \o check_daily_duty_limit(L[key])
    \o check_cycle_limit(L, key)
    \o check_break_requirement(L[key])
    \o check_daily_rest_requirement(L, key, nulls_first)

ViolationTypes(violations) == {violations[i].violation_type : i \in DOMAIN violations}

----------------------------------------------------------------------------
(* Duty record mutator.                                                    *)

\* filter(end_time__isnull=True).last(): index of the open record read last,
\* 0 when the log has no open record
previous_record(recs) ==
    LET open == {i \in DOMAIN recs : recs[i].end_time = NoTime}
    IN IF open = {} THEN 0 ELSE CHOOSE i \in open : \A j \in open : j <= i

\* the previous record ended but never saved
EndPrevious_unsaved(recs, start_time) == recs

\* records of the log after the previous record is ended at start_time
EndPrevious(recs, start_time) ==
    LET p == previous_record(recs)
    IN IF p = 0 THEN recs ELSE [recs EXCEPT ![p].end_time = start_time]

\* create_duty_status_record on log `key`; `arr` is the order in which the
\* database returns the records once the new one is stored, `all_records`
\* what eld_log.duty_records.all() yields in _update_eld_log_totals.  The
\* result is the new state of all logs.
create_duty_status_record(L, key, arr, all_records, nulls_first) ==
    LET totals == update_eld_log_totals([L[key] EXCEPT !.records = all_records])
        L1 == [L EXCEPT ![key] = [totals EXCEPT !.records = arr]]
        violations == check_hos_violations(L1, key, nulls_first)
        stored == [L1 EXCEPT ![key].violations = @ \o violations]
    IN IF violations # <<>>
       THEN [stored EXCEPT
               ![key].has_driving_violation = "drive_11h" \in ViolationTypes(violations),
               ![key].has_duty_violation = "duty_14h" \in ViolationTypes(violations)]
       ELSE stored

\* the orders the database can return after create_duty_status_record stores
\* a new open record starting at start_time
RecordsAfterCreate(recs, duty_status, start_time) ==
    Insertions(EndPrevious(recs, start_time),
               DutyStatusRecord(duty_status, start_time, NoTime, FALSE))

----------------------------------------------------------------------------
(* Trip schedule generator.                                                *)

Trip(driver, route, start_date) ==
    [driver |-> driver, status |-> "planned", route |-> route, start_date |-> start_date,
     actual_start_time |-> NoTime, actual_end_time |-> NoTime]

\* _add_duty_record: the record created; its end is the next current_time
add_duty_record(duty_status, start_time, duration_minutes) ==
    DutyStatusRecord(duty_status, start_time, start_time + duration_minutes, TRUE)

EndOf(created) == created[Len(created)].end_time

\* the generated day with a first driving block of up to 8 hours on day 0 too
generate_daily_duty_records_eight(log_date, day_number, total_trip_hours) ==
    LET start_time == log_date * MinutesPerDay + 6 * MinutesPerHour
        s1 == <<add_duty_record("on_duty_not_driving", start_time, 15)>>
        remaining0 == Min(11 * MinutesPerHour, total_trip_hours - day_number * 11 * MinutesPerHour)
        s2 == IF remaining0 > 0 /\ day_number = 0
              THEN Append(s1, add_duty_record("on_duty_not_driving", EndOf(s1), 60))
              ELSE s1
        remaining1 == IF day_number = 0 THEN remaining0 - MinutesPerHour ELSE remaining0
        max_driving == 8 * MinutesPerHour
        driving_time == Min(max_driving, remaining1)
        s3 == IF remaining0 > 0
              THEN Append(s2, add_duty_record("driving", EndOf(s2), driving_time))
              ELSE s2
        remaining2 == remaining1 - driving_time
        more == remaining0 > 0 /\ remaining2 > 0
        s4 == IF more THEN Append(s3, add_duty_record("off_duty", EndOf(s3), 30)) ELSE s3
        is_final_day == day_number = IntDiv(total_trip_hours, 11 * MinutesPerHour)
        max_additional_driving ==
            Min(3 * MinutesPerHour, remaining2 - (IF is_final_day THEN MinutesPerHour ELSE 0))
        s5 == IF more /\ max_additional_driving > 0
              THEN Append(s4, add_duty_record("driving", EndOf(s4), max_additional_driving))
              ELSE s4
        s6 == IF more /\ is_final_day
              THEN Append(s5, add_duty_record("on_duty_not_driving", EndOf(s5), 60))
              ELSE s5
        s7 == Append(s6, add_duty_record("on_duty_not_driving", EndOf(s6), 15))
        end_of_day == (log_date + 1) * MinutesPerDay
    IN IF EndOf(s7) < end_of_day
       THEN Append(s7, add_duty_record("off_duty", EndOf(s7), end_of_day - EndOf(s7)))
       ELSE s7

\* the records _generate_daily_duty_records creates, in creation order;
\* total_trip_hours is given in minutes
generate_daily_duty_records(log_date, day_number, total_trip_hours) ==
    LET start_time == log_date * MinutesPerDay + 6 * MinutesPerHour
        s1 == <<add_duty_record("on_duty_not_driving", start_time, 15)>>
        remaining0 == Min(11 * MinutesPerHour, total_trip_hours - day_number * 11 * MinutesPerHour)
        s2 == IF remaining0 > 0 /\ day_number = 0
              THEN Append(s1, add_duty_record("on_duty_not_driving", EndOf(s1), 60))
              ELSE s1
        remaining1 == IF day_number = 0 THEN remaining0 - MinutesPerHour ELSE remaining0
        max_driving == IF day_number > 0 THEN 8 * MinutesPerHour ELSE 7 * MinutesPerHour
        driving_time == Min(max_driving, remaining1)
        s3 == IF remaining0 > 0
              THEN Append(s2, add_duty_record("driving", EndOf(s2), driving_time))
              ELSE s2
        remaining2 == remaining1 - driving_time
        more == remaining0 > 0 /\ remaining2 > 0
        s4 == IF more THEN Append(s3, add_duty_record("off_duty", EndOf(s3), 30)) ELSE s3
        is_final_day == day_number = IntDiv(total_trip_hours, 11 * MinutesPerHour)
        max_additional_driving ==
            Min(3 * MinutesPerHour, remaining2 - (IF is_final_day THEN MinutesPerHour ELSE 0))
        s5 == IF more /\ max_additional_driving > 0
              THEN Append(s4, add_duty_record("driving", EndOf(s4), max_additional_driving))
              ELSE s4
        s6 == IF more /\ is_final_day
              THEN Append(s5, add_duty_record("on_duty_not_driving", EndOf(s5), 60))
              ELSE s5
        s7 == Append(s6, add_duty_record("on_duty_not_driving", EndOf(s6), 15))
        end_of_day == (log_date + 1) * MinutesPerDay
    IN IF EndOf(s7) < end_of_day
       THEN Append(s7, add_duty_record("off_duty", EndOf(s7), end_of_day - EndOf(s7)))
       ELSE s7

\* days_needed without the day that takes the remainder of the trip
days_needed_whole(total_hours) == Max(1, IntDiv(total_hours, 11 * MinutesPerHour))

days_needed(total_hours) == Max(1, IntDiv(total_hours, 11 * MinutesPerHour) + 1)

\* the orders in which the database can return the records of a generated day
GeneratedArrangements(log_date, day_number, total_hours) ==
    InsertAll({<<>>}, generate_daily_duty_records(log_date, day_number, total_hours))

\* for the days 0 .. days - 1 of a trip, the functions that give for each day
\* one of the orders in which the database can return its generated records
RECURSIVE Schedules(_, _, _)
Schedules(start_date, total_hours, days) ==
    IF days = 0 THEN {<< >>}
    ELSE {gen @@ (days - 1 :> arr) :
            gen \in Schedules(start_date, total_hours, days - 1),
            arr \in GeneratedArrangements(start_date + days - 1, days - 1, total_hours)}

----------------------------------------------------------------------------
(* State.                                                                  *)

VARIABLES
    logs,      \* ELDLog rows, keyed by <<driver, log_date>> (unique_together)
    trips,     \* Trip rows in creation order; a trip's id is its index
    clock,     \* the latest value timezone.now() has returned
    nrequests, \* number of requests served
    last,      \* the last request served and what it did
    planner    \* the run of _generate_hos_rest_stops and the RestStop rows it stored

vars == <<logs, trips, clock, nrequests, last, planner>>

\* no run of the rest stop planner
NoPlan ==
    [pc |-> "idle", total_hours |-> 0, total_distance_miles |-> 0, current_cycle |-> 0,
     cumulative_driving |-> 0, cumulative_duty |-> 0, distance_covered |-> 0,
     rest_stops |-> <<>>]

Request(op, ok) ==
    [op |-> op, ok |-> ok, key |-> <<"d1", 0>>, trip |-> NoTrip, duty_status |-> "off_duty",
     start_time |-> NoTime, previous |-> 0, violations |-> <<>>, created |-> {}]

Init ==
    /\ logs = << >>
    /\ trips = << >>
    /\ clock = 0
    /\ nrequests = 0
    /\ last = Request("init", TRUE)
    /\ planner = NoPlan

----------------------------------------------------------------------------
(* Requests.                                                               *)

\* every request served is counted, up to the bound of the exploration
Served ==
    /\ nrequests < MaxRequests
    /\ nrequests' = nrequests + 1

\* ELDLogViewSet.create: a log without records
CreateLog(driver, log_date) ==
    /\ Served
    /\ <<driver, log_date>> \notin DOMAIN logs
    /\ logs' = (<<driver, log_date>> :> ELDLog(NoTrip)) @@ logs
    /\ last' = [Request("create_log", TRUE) EXCEPT !.key = <<driver, log_date>>]
    /\ UNCHANGED <<trips, clock, planner>>

\* the state of the logs and of `last` after create_duty_status_record is
\* called on log `key`; prefetched is TRUE when the caller holds the log with
\* its duty_records prefetched, so that duty_records.all() yields the records
\* as they were when the log was loaded
CallCreate(op, key, duty_status, start_time, prefetched, trip) ==
    \E arr \in RecordsAfterCreate(logs[key].records, duty_status, start_time),
       nulls_first \in BOOLEAN :
        LET all_records == IF prefetched THEN logs[key].records ELSE arr
            after == create_duty_status_record(logs, key, arr, all_records, nulls_first)
        IN /\ logs' = after
           /\ last' = [Request(op, TRUE) EXCEPT
                         !.key = key, !.trip = trip, !.duty_status = duty_status,
                         !.start_time = start_time,
                         !.previous = previous_record(logs[key].records),
                         !.violations = SubSeq(after[key].violations,
                                               Len(logs[key].violations) + 1,
                                               Len(after[key].violations))]

\* ELDLogViewSet.add_duty_record; get_object() loads the log through
\* get_queryset(), which prefetches duty_records
AddDutyRecord(key, duty_status, start_time) ==
    /\ Served
    /\ key \in DOMAIN logs
    /\ CallCreate("add_duty_record", key, duty_status, start_time, TRUE, NoTrip)
    /\ UNCHANGED <<trips, clock, planner>>

\* trip.eld_logs, in ELDLog.Meta.ordering = ['-log_date']
TripLogDates(id) == {k[2] : k \in {x \in DOMAIN logs : logs[x].trip = id}}

\* trip.eld_logs.first(): the log read first, i.e. the latest log_date
FirstLog(id) ==
    <<trips[id].driver, CHOOSE d \in TripLogDates(id) : \A e \in TripLogDates(id) : e <= d>>

\* trip.eld_logs.last(): the log read last, i.e. the earliest log_date
LastLog(id) ==
    <<trips[id].driver, CHOOSE d \in TripLogDates(id) : \A e \in TripLogDates(id) : d <= e>>

\* TripViewSet.start_trip on a planned trip
StartTrip(id, now) ==
    /\ Served
    /\ id \in DOMAIN trips
    /\ trips[id].status = "planned"
    /\ now >= clock
    /\ clock' = now
    /\ trips' = [trips EXCEPT ![id].status = "in_progress", ![id].actual_start_time = now]
    /\ UNCHANGED planner
    /\ IF TripLogDates(id) # {}
       THEN CallCreate("start_trip", FirstLog(id), "on_duty_not_driving", now, FALSE, id)
       ELSE /\ logs' = logs
            /\ last' = [Request("start_trip", TRUE) EXCEPT !.trip = id]

\* a trip that is not planned started again, its start time overwritten
StartTripRejected_restart(id) ==
    /\ Served
    /\ id \in DOMAIN trips
    /\ trips[id].status # "planned"
    /\ \E now \in ClockTimes :
         /\ now >= clock
         /\ clock' = now
         /\ trips' = [trips EXCEPT ![id].status = "in_progress", ![id].actual_start_time = now]
    /\ last' = [Request("start_trip", TRUE) EXCEPT !.trip = id]
    /\ UNCHANGED <<logs, planner>>

\* TripViewSet.start_trip on a trip that is not planned: HTTP 400
StartTripRejected(id) ==
    /\ Served
    /\ id \in DOMAIN trips
    /\ trips[id].status # "planned"
    /\ last' = [Request("start_trip", FALSE) EXCEPT !.trip = id]
    /\ UNCHANGED <<logs, trips, clock, planner>>

\* TripViewSet.complete_trip on a trip in progress
CompleteTrip(id, now) ==
    /\ Served
    /\ id \in DOMAIN trips
    /\ trips[id].status = "in_progress"
    /\ now >= clock
    /\ clock' = now
    /\ trips' = [trips EXCEPT ![id].status = "completed", ![id].actual_end_time = now]
    /\ UNCHANGED planner
    /\ IF TripLogDates(id) # {}
       THEN CallCreate("complete_trip", LastLog(id), "off_duty", now, FALSE, id)
       ELSE /\ logs' = logs
            /\ last' = [Request("complete_trip", TRUE) EXCEPT !.trip = id]

\* TripViewSet.complete_trip on a trip that is not in progress: HTTP 400
CompleteTripRejected(id) ==
    /\ Served
    /\ id \in DOMAIN trips
    /\ trips[id].status # "in_progress"
    /\ last' = [Request("complete_trip", FALSE) EXCEPT !.trip = id]
    /\ UNCHANGED <<logs, trips, clock, planner>>

\* TripViewSet.plan_trip with a route of total_hours (minutes), from the point
\* where calculate_route has returned the route: the trip is created and
\* generate_trip_eld_logs produces its schedule.  Whether calculate_route
\* returns is the subject of the rest stop planner below.
PlanTrip(driver, total_hours, start_date) ==
    /\ Served
    /\ Len(trips) < MaxTrips
    /\ LET id == Len(trips) + 1
           days == 0 .. days_needed(total_hours) - 1
           keys == {<<driver, start_date + day>> : day \in days}
           created == keys \ DOMAIN logs
       IN \E gen \in Schedules(start_date, total_hours, days_needed(total_hours)) :
            /\ trips' = Append(trips, Trip(driver, total_hours, start_date))
            /\ logs' = [k \in DOMAIN logs \cup keys |->
                          IF k \in created
                          THEN [ELDLog(id) EXCEPT !.records = gen[k[2] - start_date]]
                          ELSE IF k \in keys THEN [logs[k] EXCEPT !.trip = id]
                          ELSE logs[k]]
            /\ last' = [Request("plan_trip", TRUE) EXCEPT
                          !.key = <<driver, start_date>>, !.trip = id, !.created = created]
    /\ UNCHANGED <<clock, planner>>

Next ==
    \/ \E driver \in Drivers, log_date \in LogDates : CreateLog(driver, log_date)
    \/ \E key \in LogKeys, duty_status \in DUTY_STATUS_CHOICES, start_time \in StartTimes :
         AddDutyRecord(key, duty_status, start_time)
    \/ \E driver \in TripDrivers, total_hours \in TripMinutes, start_date \in StartDates :
         PlanTrip(driver, total_hours, start_date)
    \/ \E id \in 1 .. MaxTrips, now \in ClockTimes : StartTrip(id, now)
    \/ \E id \in 1 .. MaxTrips : StartTripRejected(id)
    \/ \E id \in 1 .. MaxTrips, now \in ClockTimes : CompleteTrip(id, now)
    \/ \E id \in 1 .. MaxTrips : CompleteTripRejected(id)

Spec == Init /\ [][Next]_vars

----------------------------------------------------------------------------
(* The violation detector on its own: HOSService.check_hos_violations run  *)
(* on logs that sequences of create_duty_status_record calls have built.   *)

\* longest sequence of calls that builds a log of the detector's inputs
MaxTimeline == 4
\* most consecutive days with a log in the detector's inputs
MaxDays == 8

\* a timeline is a function from the start times of the calls to their duty
\* status; the calls are made in the order of their start times
Timelines(grid, statuses, maxlen) ==
    UNION {[S -> statuses] : S \in {X \in SUBSET grid : Cardinality(X) <= maxlen}}

\* the logs after the calls of a timeline are served for log `key`, each by
\* ELDLogViewSet.add_duty_record (the log loaded with its records prefetched)
RECURSIVE BuildLog(_, _, _, _)
BuildLog(L, key, timeline, nulls_first) ==
    IF DOMAIN timeline = {} THEN L
    ELSE LET start_time == CHOOSE t \in DOMAIN timeline : \A u \in DOMAIN timeline : t <= u
             arr == CHOOSE a \in RecordsAfterCreate(L[key].records, timeline[start_time],
                                                    start_time) : TRUE
             rest == [t \in DOMAIN timeline \ {start_time} |-> timeline[t]]
         IN BuildLog(create_duty_status_record(L, key, arr, L[key].records, nulls_first),
                     key, rest, nulls_first)

\* start times of one working day (date 1): 06:00, 14:00, 14:15, 14:30,
\* 17:00, 20:00 and 21:00
DayGrid == {1800, 2280, 2295, 2310, 2460, 2640, 2700}
DayStatuses == {"driving", "on_duty_not_driving", "off_duty"}

\* start times on the previous day (date 0: 16:40, 19:00, 21:00) and on the
\* day itself (date 1: 05:00, 07:00, 11:00)
PreviousGrid == {1000, 1140, 1260}
CurrentGrid == {1740, 1860, 2100}
RestStatuses == {"on_duty_not_driving", "off_duty"}

\* minutes on duty per day of a driver who works the same hours every day
ShiftMinutes == {510, 525, 600, 630}

\* one log of driver d1 on date 1, no log on date 0
InitDay ==
    \E timeline \in Timelines(DayGrid, DayStatuses, MaxTimeline), nulls_first \in BOOLEAN :
        logs = BuildLog(<<"d1", 1>> :> ELDLog(NoTrip), <<"d1", 1>>, timeline, nulls_first)

\* logs of driver d1 on dates 0 and 1
InitRest ==
    \E previous \in Timelines(PreviousGrid, RestStatuses, 3),
       current \in Timelines(CurrentGrid, RestStatuses, 2) \ {<< >>},
       nulls_first \in BOOLEAN :
        logs = BuildLog(BuildLog(<<"d1", 0>> :> ELDLog(NoTrip) @@ <<"d1", 1>> :> ELDLog(NoTrip),
                                 <<"d1", 0>>, previous, nulls_first),
                        <<"d1", 1>>, current, nulls_first)

\* the timeline of a shift of `minutes` on date `date`, from 06:00
Shift(date, minutes) ==
    (date * MinutesPerDay + 360 :> "on_duty_not_driving")
      @@ (date * MinutesPerDay + 360 + minutes :> "off_duty")

\* the logs of `driver` after the shifts of dates day .. days - 1 are worked
RECURSIVE BuildShifts(_, _, _, _, _)
BuildShifts(L, driver, day, days, minutes) ==
    IF day >= days THEN L
    ELSE CHOOSE result \in
            {BuildShifts(worked, driver, day + 1, days, minutes) :
                worked \in {BuildLog(<<driver, day>> :> ELDLog(NoTrip) @@ L, <<driver, day>>,
                                     Shift(day, minutes), FALSE)}} : TRUE

\* logs of one driver on consecutive dates from date 0, the same shift each
InitCycle ==
    \E d \in Drivers, n \in 1 .. MaxDays, shift \in ShiftMinutes :
        logs = BuildShifts(<< >>, d, 0, n, shift)

DetectorInit ==
    /\ InitDay \/ InitRest \/ InitCycle
    /\ trips = << >>
    /\ clock = 0
    /\ nrequests = 0
    /\ last = Request("init", TRUE)
    /\ planner = NoPlan

\* HOSService.check_hos_violations(eld_log): each violation found is stored
Detect(key, nulls_first) ==
    /\ Served
    /\ key \in DOMAIN logs
    /\ LET violations == check_hos_violations(logs, key, nulls_first)
       IN /\ logs' = [logs EXCEPT ![key].violations = @ \o violations]
          /\ last' = [Request("check_hos_violations", TRUE) EXCEPT
                        !.key = key, !.violations = violations]
    /\ UNCHANGED <<trips, clock, planner>>

DetectorNext == \E key \in LogKeys, nulls_first \in BOOLEAN : Detect(key, nulls_first)

DetectorSpec == DetectorInit /\ [][DetectorNext]_vars

----------------------------------------------------------------------------
(* The trip schedule generator on its own: generate_trip_eld_logs applied  *)
(* to trips with routes of many lengths on an empty database, and the      *)
(* detector run on the generated logs.  The generator takes any trip with  *)
(* a route, so the lengths include those for which the rest stop planner   *)
(* that plan_trip runs first does not return.                              *)

\* estimated durations of the route in minutes: -12 h, 0, 0.5 h, 1 h, 5 h,
\* 10.5 h, 11 h, 22 h, 25 h and 58 h
SimulatorTripMinutes == {-720, 0, 30, 60, 300, 630, 660, 1320, 1500, 3480}

\* trip.route of a trip for which no RouteCalculation is stored
NoRoute == -100000

\* TripViewSet.create: a trip stored without a route
CreateTrip(driver, start_date) ==
    /\ Served
    /\ Len(trips) < MaxTrips
    /\ trips' = Append(trips, Trip(driver, NoRoute, start_date))
    /\ last' = [Request("create_trip", TRUE) EXCEPT
                  !.key = <<driver, start_date>>, !.trip = Len(trips) + 1]
    /\ UNCHANGED <<logs, clock, planner>>

\* the loop of generate_trip_eld_logs for trip `id`: the logs afterwards,
\* gen[day] being the order in which the database returns the records
\* generated for a log created for `day`
GenerateLoop(L, id, gen) ==
    LET trip == trips[id]
        keys == {<<trip.driver, trip.start_date + day>> : day \in DOMAIN gen}
        created == keys \ DOMAIN L
    IN [k \in DOMAIN L \cup keys |->
          IF k \in created THEN [ELDLog(id) EXCEPT !.records = gen[k[2] - trip.start_date]]
          ELSE IF k \in keys THEN [L[k] EXCEPT !.trip = id]
          ELSE L[k]]

\* the generated logs regenerated: records created for existing logs too
GenerateTripLogs_again(id) ==
    /\ Served
    /\ id \in DOMAIN trips
    /\ trips[id].route # NoRoute
    /\ LET trip == trips[id]
           days == 0 .. days_needed(trip.route) - 1
       IN \E gen \in Schedules(trip.start_date, trip.route, days_needed(trip.route)) :
            /\ logs' = [k \in DOMAIN GenerateLoop(logs, id, gen) |->
                          IF k[1] = trip.driver /\ k[2] - trip.start_date \in days /\ k \in DOMAIN logs
                          THEN [logs[k] EXCEPT !.trip = id,
                                               !.records = @ \o gen[k[2] - trip.start_date]]
                          ELSE GenerateLoop(logs, id, gen)[k]]
            /\ last' = [Request("generate_trip_eld_logs", TRUE) EXCEPT
                          !.key = <<trip.driver, trip.start_date>>, !.trip = id,
                          !.created = DOMAIN GenerateLoop(logs, id, gen) \ DOMAIN logs]
    /\ UNCHANGED <<trips, clock, planner>>

\* HOSService.generate_trip_eld_logs(trip) on a stored trip with a route
GenerateTripLogs(id) ==
    /\ Served
    /\ id \in DOMAIN trips
    /\ trips[id].route # NoRoute
    /\ LET trip == trips[id]
           days == 0 .. days_needed(trip.route) - 1
       IN \E gen \in Schedules(trip.start_date, trip.route, days_needed(trip.route)) :
            /\ logs' = GenerateLoop(logs, id, gen)
            /\ last' = [Request("generate_trip_eld_logs", TRUE) EXCEPT
                          !.key = <<trip.driver, trip.start_date>>, !.trip = id,
                          !.created = DOMAIN GenerateLoop(logs, id, gen) \ DOMAIN logs]
    /\ UNCHANGED <<trips, clock, planner>>

\* a trip without a route scheduled as a trip of 0 hours
GenerateTripLogsRejected_scheduled(id) ==
    /\ Served
    /\ id \in DOMAIN trips
    /\ trips[id].route = NoRoute
    /\ \E arr \in GeneratedArrangements(trips[id].start_date, 0, 0) :
          logs' = GenerateLoop(logs, id, 0 :> arr)
    /\ last' = [Request("generate_trip_eld_logs", TRUE) EXCEPT
                  !.key = <<trips[id].driver, trips[id].start_date>>, !.trip = id]
    /\ UNCHANGED <<trips, clock, planner>>

\* HOSService.generate_trip_eld_logs(trip) on a stored trip without a route:
\* the access to trip.route raises before anything is read or written
GenerateTripLogsRejected(id) ==
    /\ Served
    /\ id \in DOMAIN trips
    /\ trips[id].route = NoRoute
    /\ last' = [Request("generate_trip_eld_logs", FALSE) EXCEPT
                  !.key = <<trips[id].driver, trips[id].start_date>>, !.trip = id]
    /\ UNCHANGED <<logs, trips, clock, planner>>

SimulatorNext ==
    \/ \E driver \in Drivers, total_hours \in SimulatorTripMinutes, start_date \in StartDates :
         PlanTrip(driver, total_hours, start_date)
    \/ \E key \in LogKeys, nulls_first \in BOOLEAN : Detect(key, nulls_first)
    \/ \E driver \in Drivers, start_date \in StartDates : CreateTrip(driver, start_date)
    \/ \E id \in 1 .. MaxTrips : GenerateTripLogs(id)
    \/ \E id \in 1 .. MaxTrips : GenerateTripLogsRejected(id)

SimulatorSpec == Init /\ [][SimulatorNext]_vars

----------------------------------------------------------------------------
(* Certification of a log.                                                 *)

\* a certified log certified again, with the time of the second call
CertifyRejected_overwrite(key) ==
    /\ Served
    /\ key \in DOMAIN logs
    /\ logs[key].is_certified
    /\ \E now \in ClockTimes :
         /\ now >= clock
         /\ clock' = now
         /\ logs' = [logs EXCEPT ![key].certified_at = now]
    /\ last' = [Request("certify", TRUE) EXCEPT !.key = key]
    /\ UNCHANGED <<trips, planner>>

\* ELDLogViewSet.certify on a log that is not certified
Certify(key, now) ==
    /\ Served
    /\ key \in DOMAIN logs
    /\ ~logs[key].is_certified
    /\ now >= clock
    /\ clock' = now
    /\ logs' = [logs EXCEPT ![key].is_certified = TRUE, ![key].certified_at = now]
    /\ last' = [Request("certify", TRUE) EXCEPT !.key = key]
    /\ UNCHANGED <<trips, planner>>

\* ELDLogViewSet.certify on a certified log: HTTP 400
CertifyRejected(key) ==
    /\ Served
    /\ key \in DOMAIN logs
    /\ logs[key].is_certified
    /\ last' = [Request("certify", FALSE) EXCEPT !.key = key]
    /\ UNCHANGED <<logs, trips, clock, planner>>

CertifyNext ==
    \/ \E driver \in Drivers, log_date \in LogDates : CreateLog(driver, log_date)
    \/ \E key \in LogKeys, duty_status \in DUTY_STATUS_CHOICES, start_time \in StartTimes :
         AddDutyRecord(key, duty_status, start_time)
    \/ \E key \in LogKeys, now \in ClockTimes : Certify(key, now)
    \/ \E key \in LogKeys : CertifyRejected(key)

CertifySpec == Init /\ [][CertifyNext]_vars

----------------------------------------------------------------------------
(* The life cycle of a trip: trips of one and of several days planned, or  *)
(* stored without a schedule, then started and completed.                  *)

\* estimated durations of the route in minutes: 5 h, 11 h and 18 h, lengths
\* for which the rest stop planner of plan_trip returns
LifecycleTripMinutes == {300, 660, 1080}

LifecycleNext ==
    \/ \E driver \in Drivers, total_hours \in LifecycleTripMinutes, start_date \in StartDates :
         PlanTrip(driver, total_hours, start_date)
    \/ \E driver \in Drivers, start_date \in StartDates : CreateTrip(driver, start_date)
    \/ \E id \in 1 .. MaxTrips, now \in ClockTimes : StartTrip(id, now)
    \/ \E id \in 1 .. MaxTrips : StartTripRejected(id)
    \/ \E id \in 1 .. MaxTrips, now \in ClockTimes : CompleteTrip(id, now)
    \/ \E id \in 1 .. MaxTrips : CompleteTripRejected(id)

LifecycleSpec == Init /\ [][LifecycleNext]_vars

----------------------------------------------------------------------------
(* Rest stop planner: RouteService._generate_hos_rest_stops, the loop that *)
(* calculate_route runs once the route of a trip is stored.  The planner's *)
(* hours are minutes here: 8 hours are 480, the half hour of a meal break  *)
(* is 30.                                                                  *)

\* route.estimated_duration_hours in minutes: 5 h, 9.5 h, 10 h, 18 h, 20 h
\* and 25 h
PlannerMinutes == {300, 570, 600, 1080, 1200, 1500}

\* route.total_distance_miles
PlannerMiles == {400, 1000, 1400}

\* trip.current_cycle_used in minutes: 0, 5.5 h, 6 h and 70 h
PlannerCycles == {0, 330, 360, 4200}

RestStop(type, duration, distance, order, driven_before, on_duty_before) ==
    [rest_type |-> type, required_duration_minutes |-> duration,
     distance_from_start |-> distance, sequence_order |-> order,
     hours_driven_before |-> driven_before, hours_on_duty_before |-> on_duty_before]

\* the loop condition cumulative_driving + 8 < driving_hours, driving_hours
\* being total_hours * 0.85; both sides multiplied by 100
MoreRest(p) == 100 * (p.cumulative_driving + 8 * MinutesPerHour) < 85 * p.total_hours

\* the rest type the loop body chooses
rest_type(cumulative_driving, cumulative_duty) ==
    IF cumulative_duty + 8 * MinutesPerHour >= 14 * MinutesPerHour THEN "daily_rest"
    ELSE IF cumulative_driving + 8 * MinutesPerHour >= 11 * MinutesPerHour THEN "daily_rest"
    ELSE "meal_break"

\* one iteration of the loop.  distance_covered grows by 8 * 55 miles per
\* iteration and is only ever compared with total_distance_miles, so once it
\* has passed the end of the route its value is kept as it is.
LoopBody(p) ==
    LET duty_limit == p.cumulative_duty + 8 * MinutesPerHour >= 14 * MinutesPerHour
        driving_limit == ~duty_limit
                         /\ p.cumulative_driving + 8 * MinutesPerHour >= 11 * MinutesPerHour
        type == rest_type(p.cumulative_driving, p.cumulative_duty)
        rest_duration == IF type = "daily_rest" THEN 10 * 60 ELSE 30
        driving_time_before == p.cumulative_driving
        duty_time_before == p.cumulative_duty
        duty == IF duty_limit \/ driving_limit THEN 0 ELSE p.cumulative_duty + 30
        driving == IF driving_limit THEN 0 ELSE p.cumulative_driving
        distance == IF p.distance_covered >= p.total_distance_miles THEN p.distance_covered
                    ELSE p.distance_covered + 8 * 55
        stops == IF distance < p.total_distance_miles
                 THEN Append(p.rest_stops,
                             RestStop(type, rest_duration, distance, Len(p.rest_stops) + 1,
                                      driving_time_before, duty_time_before))
                 ELSE p.rest_stops
    IN [p EXCEPT !.cumulative_driving = IF type # "meal_break" THEN 0
                                        ELSE driving + 8 * MinutesPerHour,
                 !.cumulative_duty = IF type # "meal_break" THEN duty
                                     ELSE duty + 8 * MinutesPerHour,
                 !.distance_covered = distance,
                 !.rest_stops = stops]

\* _generate_hos_rest_stops is entered for a route and a trip
GenerateRestStops(total_hours, total_distance_miles, current_cycle) ==
    /\ planner.pc = "idle"
    /\ planner' = [NoPlan EXCEPT !.pc = "loop", !.total_hours = total_hours,
                                 !.total_distance_miles = total_distance_miles,
                                 !.current_cycle = current_cycle,
                                 !.cumulative_duty = current_cycle]
    /\ UNCHANGED <<logs, trips, clock, nrequests, last>>

\* the loop condition holds: the body runs once
RestStopLoop ==
    /\ planner.pc = "loop"
    /\ MoreRest(planner)
    /\ planner' = LoopBody(planner)
    /\ UNCHANGED <<logs, trips, clock, nrequests, last>>

\* the loop condition fails: _generate_hos_rest_stops returns
RestStopsReturn ==
    /\ planner.pc = "loop"
    /\ ~MoreRest(planner)
    /\ planner' = [planner EXCEPT !.pc = "done"]
    /\ UNCHANGED <<logs, trips, clock, nrequests, last>>

PlannerNext ==
    \/ \E total_hours \in PlannerMinutes, total_distance_miles \in PlannerMiles,
          current_cycle \in PlannerCycles :
         GenerateRestStops(total_hours, total_distance_miles, current_cycle)
    \/ RestStopLoop
    \/ RestStopsReturn

PlannerSpec == Init /\ [][PlannerNext]_vars

\* the planner runs in the request that plans the trip: a loop that can take
\* a step, or return, eventually does
PlannerFairSpec == PlannerSpec /\ WF_vars(RestStopLoop \/ RestStopsReturn)

----------------------------------------------------------------------------
(* Vocabulary of the properties.                                           *)

\* the last request called create_duty_status_record on log last.key
Appended == last.op \in {"add_duty_record", "start_trip", "complete_trip"}
            /\ last.ok /\ last.start_time # NoTime

Closed(r) == r.end_time # NoTime

Duration(r) == r.end_time - r.start_time

\* sum of the durations of the records of recs whose index is in idx
RECURSIVE DurationSum(_, _)
DurationSum(recs, idx) ==
    IF idx = {} THEN 0
    ELSE LET i == CHOOSE x \in idx : TRUE
         IN Duration(recs[i]) + DurationSum(recs, idx \ {i})

\* sum of the durations of the closed records of a log with a status in statuses
ClosedTime(log, statuses) ==
    DurationSum(log.records,
                {i \in DOMAIN log.records :
                    Closed(log.records[i]) /\ log.records[i].duty_status \in statuses})

AggregatesConsistent(log) ==
    /\ log.total_drive_time = ClosedTime(log, {"driving"})
    /\ log.total_duty_time = ClosedTime(log, {"driving", "on_duty_not_driving"})
    /\ log.total_off_duty_time = ClosedTime(log, {"off_duty"})
    /\ log.total_sleeper_time = ClosedTime(log, {"sleeper_berth"})

RemoveAt(s, n) == SubSeq(s, 1, n - 1) \o SubSeq(s, n + 1, Len(s))

----------------------------------------------------------------------------
(* C1: append_status fails with InvalidTransition whenever the new         *)
(* interval starts before the start of the log's last interval, and then   *)
(* leaves the log (intervals, aggregates, violations) unchanged.           *)
C1_OutOfOrderRejected ==
    [][\A key \in DOMAIN logs :
         LET recs == logs[key].records
         IN (/\ last'.op \in {"add_duty_record", "start_trip", "complete_trip"}
             /\ last'.key = key
             /\ last'.start_time # NoTime
             /\ recs # <<>>
             /\ last'.start_time < recs[Len(recs)].start_time)
            => (~last'.ok /\ logs'[key] = logs[key])]_vars

----------------------------------------------------------------------------
(* C2: in every reachable log the intervals are sorted by start, no two    *)
(* overlap, every closed interval has end >= start, and at most one        *)
(* interval is open, which is the one with the latest start.               *)
WellFormed(recs) ==
    /\ \A i, j \in DOMAIN recs : i < j => recs[i].start_time <= recs[j].start_time
    /\ \A i \in DOMAIN recs : Closed(recs[i]) => recs[i].end_time >= recs[i].start_time
    /\ \A i, j \in DOMAIN recs :
          i < j => Closed(recs[i]) /\ recs[i].end_time <= recs[j].start_time
    /\ Cardinality({i \in DOMAIN recs : ~Closed(recs[i])}) <= 1

C2_IntervalsWellFormed == \A key \in DOMAIN logs : WellFormed(logs[key].records)

----------------------------------------------------------------------------
(* C3: append_status on a log with an open interval sets that interval's   *)
(* end to the new interval's start and creates the new interval open; no   *)
(* other interval is modified, and none at all when no interval is open.   *)
C3_ClosesOpenInterval ==
    [][Appended' =>
         LET pre == logs[last'.key].records
             post == logs'[last'.key].records
             start == last'.start_time
         IN \E n \in DOMAIN post :
              /\ post[n] = DutyStatusRecord(last'.duty_status, start, NoTime, FALSE)
              /\ Len(post) = Len(pre) + 1
              /\ \A i \in DOMAIN pre :
                    RemoveAt(post, n)[i] = IF Closed(pre[i]) THEN pre[i]
                                           ELSE [pre[i] EXCEPT !.end_time = start]]_vars

\* an append has just closed an open interval at its own start
C3_Witness ==
    /\ Appended
    /\ last.previous # 0
    /\ \E i \in DOMAIN logs[last.key].records :
          LET r == logs[last.key].records[i]
          IN r.end_time = last.start_time /\ r.start_time < last.start_time

----------------------------------------------------------------------------
(* C4: after every append_status call the four cached aggregates of the    *)
(* log equal the sums recomputed from its closed intervals.                *)
C4_AggregatesAfterAppend == Appended => AggregatesConsistent(logs[last.key])

----------------------------------------------------------------------------
(* C5: every log that holds only closed intervals, generated logs          *)
(* included, has cached aggregates equal to the sums recomputed from its   *)
(* intervals.                                                              *)
C5_ClosedLogAggregates ==
    \A key \in DOMAIN logs :
        (\A i \in DOMAIN logs[key].records : Closed(logs[key].records[i]))
        => AggregatesConsistent(logs[key])

----------------------------------------------------------------------------
(* C6: after every append_status call the driving-limit flag is true       *)
(* exactly when the detector run of that call reported drive_11h, and the  *)
(* duty-limit flag exactly when it reported duty_14h.                      *)
C6_FlagsFromDetector ==
    Appended =>
        /\ logs[last.key].has_driving_violation
             = ("drive_11h" \in ViolationTypes(last.violations))
        /\ logs[last.key].has_duty_violation
             = ("duty_14h" \in ViolationTypes(last.violations))

----------------------------------------------------------------------------
(* C7: in every reachable log, two closed intervals that are consecutive   *)
(* in start order abut: the first one's end is the second one's start.     *)
C7_AdjacentClosedAbut ==
    \A key \in DOMAIN logs :
        LET recs == logs[key].records
        IN \A i \in 1 .. Len(recs) - 1 :
              Closed(recs[i]) /\ Closed(recs[i + 1])
              => recs[i].end_time = recs[i + 1].start_time

----------------------------------------------------------------------------
(* C8: every generated day is covered without gaps from 00:00 to 24:00 of  *)
(* its log date.                                                           *)
C8_GeneratedDayCovered ==
    last.op = "plan_trip" =>
        \A key \in last.created :
            LET recs == logs[key].records
            IN /\ recs # <<>>
               /\ recs[1].start_time = key[2] * MinutesPerDay
               /\ recs[Len(recs)].end_time = (key[2] + 1) * MinutesPerDay
               /\ \A i \in 1 .. Len(recs) - 1 : recs[i].end_time = recs[i + 1].start_time

----------------------------------------------------------------------------
(* C9: cycle_hours_used(driver, as_of) is the sum of the durations of the  *)
(* closed driving and on-duty intervals of the driver's logs dated in      *)
(* [as_of - (window - 1), as_of], window being 8 days for 70_8 and 7       *)
(* otherwise; other dates and other drivers contribute nothing.            *)
Window(driver) == IF cycle_type[driver] = "70_8" THEN 8 ELSE 7

\* on-duty time of the log of a driver on a date, 0 when there is no log
DutyTimeOn(driver, date) ==
    IF <<driver, date>> \in DOMAIN logs THEN ClosedTime(logs[<<driver, date>>], DutyStatuses)
    ELSE 0

RECURSIVE DutyTimeOver(_, _)
DutyTimeOver(driver, dates) ==
    IF dates = {} THEN 0
    ELSE LET d == CHOOSE x \in dates : TRUE
         IN DutyTimeOn(driver, d) + DutyTimeOver(driver, dates \ {d})

WindowDates(driver, as_of) == {d \in Dates : as_of - (Window(driver) - 1) <= d /\ d <= as_of}

C9_CycleHoursUsed ==
    \A driver \in Drivers, as_of \in Dates :
        get_current_cycle_hours(logs, driver, as_of)
          = DutyTimeOver(driver, WindowDates(driver, as_of))

\* a 60_7 driver has on-duty time on a date that lies 7 days before a date
\* of the model, i.e. just outside the 7-day window and inside an 8-day one
C9_Witness ==
    \E driver \in Drivers, as_of \in Dates :
        /\ cycle_type[driver] = "60_7"
        /\ as_of - 7 \in Dates
        /\ DutyTimeOn(driver, as_of - 7) > 0
        /\ get_current_cycle_hours(logs, driver, as_of) = 0

----------------------------------------------------------------------------
(* C10: cycle_hours_used never decreases when append_status adds a         *)
(* driving or on-duty interval to a log inside the window, is unchanged by *)
(* an interval added outside the window, and an interval on the oldest     *)
(* date of the window stops being counted when as_of advances by one day.  *)
C10_CycleMonotone ==
    [][(Appended' /\ last'.duty_status \in DutyStatuses) =>
         \A as_of \in Dates :
            LET driver == last'.key[1]
                before == get_current_cycle_hours(logs, driver, as_of)
                after == get_current_cycle_hours(logs', driver, as_of)
                oldest == as_of - (Window(driver) - 1)
            IN /\ last'.key[2] \in WindowDates(driver, as_of) => after >= before
               /\ last'.key[2] \notin WindowDates(driver, as_of) => after = before
               /\ (as_of + 1 \in Dates /\ oldest \in Dates) =>
                     get_current_cycle_hours(logs, driver, as_of + 1)
                       = before - DutyTimeOn(driver, oldest) + DutyTimeOn(driver, as_of + 1)]_vars

----------------------------------------------------------------------------
(* Vocabulary of the detector's properties.                                *)

\* the last request ran the detector on log last.key, on its own
Detected == last.op = "check_hos_violations"

\* the violations of a type among those a detector run reported
Reported(type) == SelectSeq(last.violations, LAMBDA v : v.violation_type = type)

----------------------------------------------------------------------------
(* C11: the detector reports drive_11h for a log exactly when the closed   *)
(* driving intervals of the log sum to strictly more than 11 hours, once,  *)
(* with actual_value that sum and limit_value 11 hours.                    *)
C11_DriveLimit ==
    Detected =>
        LET driving == ClosedTime(logs[last.key], {"driving"})
        IN IF driving > 11 * 60
           THEN /\ Len(Reported("drive_11h")) = 1
                /\ Reported("drive_11h")[1].actual_value = driving
                /\ Reported("drive_11h")[1].limit_value = 11 * 60
           ELSE Reported("drive_11h") = <<>>

\* the detector has reported drive_11h on a log with 11.5 hours of driving
C11_Witness ==
    /\ Detected
    /\ ClosedTime(logs[last.key], {"driving"}) = 690
    /\ Reported("drive_11h") # <<>>

\* the detector has run on a log with exactly 11 hours of driving
C11_ExactlyEleven ==
    /\ Detected
    /\ ClosedTime(logs[last.key], {"driving"}) = 660

----------------------------------------------------------------------------
(* C12: the detector reports duty_14h for a log exactly when the latest    *)
(* end among its driving and on-duty intervals minus the start of the      *)
(* first of them is strictly more than 14 hours, also when the interval    *)
(* with the latest start is still open.                                    *)
DutyIndexes(log) == {i \in DOMAIN log.records : log.records[i].duty_status \in DutyStatuses}

\* latest end among the closed driving and on-duty intervals minus the
\* earliest start among the driving and on-duty intervals; needs one closed
DutyWindow(log) ==
    LET recs == log.records
        closed == {i \in DutyIndexes(log) : Closed(recs[i])}
        latest == CHOOSE i \in closed : \A j \in closed : recs[j].end_time <= recs[i].end_time
        first == CHOOSE i \in DutyIndexes(log) :
                    \A j \in DutyIndexes(log) : recs[i].start_time <= recs[j].start_time
    IN recs[latest].end_time - recs[first].start_time

HasClosedDuty(log) == \E i \in DutyIndexes(log) : Closed(log.records[i])

C12_DutyWindow ==
    Detected =>
        LET log == logs[last.key]
        IN (Reported("duty_14h") # <<>>)
             = (HasClosedDuty(log) /\ DutyWindow(log) > 14 * 60)

----------------------------------------------------------------------------
(* C13: the detector reports a cycle violation for a log exactly when the  *)
(* cycle hours used by the log's driver as of the log's date exceed the    *)
(* driver's limit: cycle_70h with limit 70 for 70_8, cycle_60h with limit  *)
(* 60 for 60_7; a cycle violation is critical, every other one is of       *)
(* severity violation.                                                     *)
CycleTypes == {"cycle_70h", "cycle_60h"}

C13_CycleLimit ==
    Detected =>
        LET driver == last.key[1]
            used == DutyTimeOver(driver, WindowDates(driver, last.key[2]))
            long == cycle_type[driver] = "70_8"
            limit == IF long THEN 70 * 60 ELSE 60 * 60
            type == IF long THEN "cycle_70h" ELSE "cycle_60h"
        IN /\ IF used > limit
              THEN /\ Len(Reported(type)) = 1
                   /\ Reported(type)[1].actual_value = used
                   /\ Reported(type)[1].limit_value = limit
              ELSE Reported(type) = <<>>
           /\ \A t \in CycleTypes \ {type} : Reported(t) = <<>>
           /\ \A i \in DOMAIN last.violations :
                 last.violations[i].severity
                   = IF last.violations[i].violation_type \in CycleTypes
                     THEN "critical" ELSE "violation"

\* a 60_7 driver with more than 60 and at most 70 hours in the window has
\* been reported cycle_60h
C13_Witness ==
    /\ Detected
    /\ cycle_type[last.key[1]] = "60_7"
    /\ DutyTimeOver(last.key[1], WindowDates(last.key[1], last.key[2])) \in 3601 .. 4200
    /\ Reported("cycle_60h") # <<>>

\* a detector run for a driver whose cycle hours equal the limit
C13_AtLimit ==
    /\ Detected
    /\ DutyTimeOver(last.key[1], WindowDates(last.key[1], last.key[2]))
         = IF cycle_type[last.key[1]] = "70_8" THEN 4200 ELSE 3600

----------------------------------------------------------------------------
(* C14: the detector reports rest_break for a log exactly when some run of *)
(* driving intervals consecutive in start order, no two neighbours of it   *)
(* separated by a gap of 30 minutes or more, totals more than 8 hours of   *)
(* driving: a gap of at least 30 minutes resets the running total, a       *)
(* shorter gap neither resets it nor is added to it.                       *)
ClosedDriving(log) ==
    SelectSeq(log.records, LAMBDA r : r.duty_status = "driving" /\ Closed(r))

\* driving intervals i .. j of d form a run without a gap of 30 minutes
Unbroken(d, i, j) == \A k \in i .. j - 1 : d[k + 1].start_time - d[k].end_time < 30

C14_BreakRequirement ==
    Detected =>
        LET d == ClosedDriving(logs[last.key])
        IN (Reported("rest_break") # <<>>)
             = (\E i, j \in DOMAIN d :
                   i <= j /\ Unbroken(d, i, j) /\ DurationSum(d, i .. j) > 8 * 60)

\* rest_break has been reported for two driving intervals of at most 8
\* hours each, separated by a gap shorter than 30 minutes
C14_Witness ==
    /\ Detected
    /\ Reported("rest_break") # <<>>
    /\ LET d == ClosedDriving(logs[last.key])
       IN /\ Len(d) = 2
          /\ \A i \in DOMAIN d : Duration(d[i]) <= 8 * 60
          /\ d[2].start_time - d[1].end_time \in 1 .. 29

\* no rest_break for more than 8 hours of driving with a gap of 30 minutes
C14_Reset ==
    /\ Detected
    /\ Reported("rest_break") = <<>>
    /\ LET d == ClosedDriving(logs[last.key])
       IN /\ Len(d) = 2
          /\ DurationSum(d, DOMAIN d) > 8 * 60
          /\ d[2].start_time - d[1].end_time = 30

----------------------------------------------------------------------------
(* C15: the detector reports daily_rest for a log exactly when the driver  *)
(* has a log on the previous date and the gap from the end of that log's   *)
(* last driving or on-duty interval to the start of this log's first       *)
(* driving or on-duty interval is less than 10 hours, with actual_value    *)
(* that gap; without a log on the previous date none is reported.  The     *)
(* gap is defined when both logs have such an interval and the previous    *)
(* log's last one is closed.                                               *)
DutyRecords(log) == SelectSeq(log.records, LAMBDA r : r.duty_status \in DutyStatuses)

C15_ExactlyTen ==
    /\ Detected
    /\ <<last.key[1], last.key[2] - 1>> \in DOMAIN logs
    /\ LET before == DutyRecords(logs[<<last.key[1], last.key[2] - 1>>])
           now == DutyRecords(logs[last.key])
       IN /\ before # <<>> /\ now # <<>> /\ Closed(before[Len(before)])
          /\ now[1].start_time - before[Len(before)].end_time = 600

----------------------------------------------------------------------------
(* C16: running the detector on a log does not add violations of a type    *)
(* the log already records: the number of stored violations of every       *)
(* recorded type is the same after the run as before it.                   *)
CountOf(violations, type) ==
    Cardinality({i \in DOMAIN violations : violations[i].violation_type = type})

C16_DetectionIsPure ==
    [][Detected' =>
         \A type \in ViolationTypes(logs[last'.key].violations) :
            CountOf(logs'[last'.key].violations, type)
              = CountOf(logs[last'.key].violations, type)]_vars

----------------------------------------------------------------------------
(* Vocabulary of the generator's properties.                               *)

\* the last request planned a trip; its logs are those of TripLogDates
Planned == last.op = "plan_trip"

\* total_trip_hours of the trip planned last, in minutes
PlannedMinutes == trips[last.trip].route

\* the dates start, start + 1, ... of n consecutive days
ConsecutiveDates(start, n) == {start + i : i \in 0 .. n - 1}

----------------------------------------------------------------------------
(* C17: for every total_trip_hours, zero and negative ones included, the   *)
(* generator returns max(1, floor(total_trip_hours / 11) + 1) daily logs,  *)
(* on consecutive dates from the planned start date; 3 logs for 25 hours.  *)
C17_DaysGenerated ==
    Planned =>
        LET whole == (PlannedMinutes \div (11 * 60)) + 1
            n == IF whole >= 1 THEN whole ELSE 1
        IN TripLogDates(last.trip) = ConsecutiveDates(trips[last.trip].start_date, n)

\* a trip of 25 hours has been planned and has 3 logs
C17_Witness ==
    /\ Planned
    /\ PlannedMinutes = 25 * 60
    /\ Cardinality(TripLogDates(last.trip)) = 3

\* a trip of negative length has been planned
C17_Negative == Planned /\ PlannedMinutes < 0

----------------------------------------------------------------------------
(* C18: for a total_trip_hours in (0, 11], 11 included, the generator      *)
(* produces exactly 1 day, with at most 11 hours of driving, on which the  *)
(* detector reports no violation.                                          *)
C18_ShortTripOneDay ==
    (Planned /\ PlannedMinutes > 0 /\ PlannedMinutes <= 11 * 60) =>
        /\ Cardinality(TripLogDates(last.trip)) = 1
        /\ \A key \in last.created :
              /\ ClosedTime(logs[key], {"driving"}) <= 11 * 60
              /\ \A nulls_first \in BOOLEAN :
                    check_hos_violations(logs, key, nulls_first) = <<>>

----------------------------------------------------------------------------
(* C19: a 70_8 driver without logs plans a trip of 22 hours: exactly 2     *)
(* daily logs; day 0 has a driving block of 7 hours, a break of 30 minutes *)
(* and a second driving block of at most 3 hours, day 1 has a driving      *)
(* block of 8 hours, and the detector reports no violation on either day.  *)
C19_TwentyTwoHours ==
    (/\ Planned
     /\ PlannedMinutes = 22 * 60
     /\ cycle_type[trips[last.trip].driver] = "70_8"
     /\ last.created = DOMAIN logs) =>
        LET driver == trips[last.trip].driver
            start == trips[last.trip].start_date
            day0 == ClosedDriving(logs[<<driver, start>>])
            day1 == ClosedDriving(logs[<<driver, start + 1>>])
        IN /\ TripLogDates(last.trip) = {start, start + 1}
           /\ Len(day0) = 2
           /\ Duration(day0[1]) = 7 * 60
           /\ day0[2].start_time - day0[1].end_time = 30
           /\ Duration(day0[2]) <= 3 * 60
           /\ Len(day1) >= 1
           /\ Duration(day1[1]) = 8 * 60
           /\ \A key \in DOMAIN logs, nulls_first \in BOOLEAN :
                 check_hos_violations(logs, key, nulls_first) = <<>>

----------------------------------------------------------------------------
(* C20: for every positive total_trip_hours the driving intervals of all   *)
(* the generated days together last total_trip_hours.                      *)
RECURSIVE DrivingOver(_)
DrivingOver(keys) ==
    IF keys = {} THEN 0
    ELSE LET key == CHOOSE k \in keys : TRUE
         IN ClosedTime(logs[key], {"driving"}) + DrivingOver(keys \ {key})

C20_AllHoursScheduled ==
    (Planned /\ PlannedMinutes > 0 /\ last.created = DOMAIN logs) =>
        DrivingOver(last.created) = PlannedMinutes

----------------------------------------------------------------------------
(* C21: for every total_trip_hours and either cycle type, when the driver  *)
(* has no log before the trip is planned, the detector reports no          *)
(* violation of any type on any generated day, run once all the days of    *)
(* the trip are generated.                                                 *)
C21_GeneratedDaysCompliant ==
    (Planned /\ \A key \in DOMAIN logs : key[1] = last.key[1] => key \in last.created) =>
        \A key \in last.created, nulls_first \in BOOLEAN :
            check_hos_violations(logs, key, nulls_first) = <<>>

----------------------------------------------------------------------------
(* C22: the generator invoked for a trip without a resolved route fails    *)
(* with an error and creates no daily log and no interval.                 *)
C22_MissingRoute ==
    [][(last'.op = "generate_trip_eld_logs" /\ trips[last'.trip].route = NoRoute) =>
         (~last'.ok /\ logs' = logs)]_vars

\* the generator has been invoked for a trip without a route and has failed
C22_Witness ==
    /\ last.op = "generate_trip_eld_logs"
    /\ ~last.ok
    /\ trips[last.trip].route = NoRoute

----------------------------------------------------------------------------
(* C23: certification is write-once: certifying an uncertified log sets    *)
(* the flag and the timestamp; certifying a certified log is rejected with *)
(* an error and changes neither, so the timestamp of a certified log stays *)
(* that of the first successful call.                                      *)
C23_CertifyOnce ==
    [][/\ last'.op = "certify" =>
            IF logs[last'.key].is_certified
            THEN ~last'.ok /\ logs'[last'.key] = logs[last'.key]
            ELSE /\ last'.ok
                 /\ logs'[last'.key].is_certified
                 /\ logs'[last'.key].certified_at = clock'
       /\ \A key \in DOMAIN logs :
            logs[key].is_certified =>
                /\ logs'[key].is_certified
                /\ logs'[key].certified_at = logs[key].certified_at]_vars

\* a log certified at 16:40 has been refused a second certification
C23_Witness ==
    /\ last.op = "certify"
    /\ ~last.ok
    /\ logs[last.key].is_certified
    /\ logs[last.key].certified_at = 1000

----------------------------------------------------------------------------
(* C24: there is one daily log per (driver, date), the one keyed by it: a  *)
(* schedule generation creates logs only for dates of the trip on which    *)
(* the driver has none, reuses the log of every other date and adds no     *)
(* interval to it, so generating again for a trip whose days all have a    *)
(* log leaves the logs and their intervals as they are.                    *)
Generated == last.op \in {"plan_trip", "generate_trip_eld_logs"} /\ last.ok

C24_OneLogPerDay ==
    [][Generated' =>
         LET trip == trips'[last'.trip]
             dates == ConsecutiveDates(trip.start_date, days_needed(trip.route))
         IN /\ DOMAIN logs' = DOMAIN logs \cup {<<trip.driver, date>> : date \in dates}
            /\ \A key \in DOMAIN logs : logs'[key].records = logs[key].records]_vars

\* the schedule of a planned trip has been generated a second time
C24_Witness ==
    /\ last.op = "generate_trip_eld_logs"
    /\ last.ok
    /\ last.created = {}
    /\ \A date \in TripLogDates(last.trip) : logs[<<last.key[1], date>>].records # <<>>

----------------------------------------------------------------------------
(* C25: in every generated day with hours left to drive, the first driving *)
(* block lasts min(max_driving, remaining), max_driving being 7 hours on   *)
(* day 0 and 8 hours on later days and remaining being min(11, total - 11  *)
(* x day) less the pickup hour on day 0; a second driving block lasts at   *)
(* most 3 hours and starts at the end of a 30-minute off_duty break that   *)
(* starts at the end of the first block; there is no third block, and the  *)
(* driving of a day never exceeds 11 hours.                                *)
DrivingBlocks(log) == SelectSeq(log.records, LAMBDA r : r.duty_status = "driving")

C25_DrivingBlocks ==
    Planned =>
        \A key \in last.created :
            LET day == key[2] - trips[last.trip].start_date
                left == PlannedMinutes - 11 * 60 * day
                hours == IF left < 11 * 60 THEN left ELSE 11 * 60
                remaining == IF day = 0 THEN hours - 60 ELSE hours
                max_driving == IF day = 0 THEN 7 * 60 ELSE 8 * 60
                blocks == DrivingBlocks(logs[key])
            IN /\ ClosedTime(logs[key], {"driving"}) <= 11 * 60
               /\ hours > 0 =>
                    /\ Len(blocks) \in {1, 2}
                    /\ Duration(blocks[1])
                         = IF remaining < max_driving THEN remaining ELSE max_driving
                    /\ Len(blocks) = 2 =>
                         /\ Duration(blocks[2]) <= 3 * 60
                         /\ \E i \in DOMAIN logs[key].records :
                               logs[key].records[i]
                                 = DutyStatusRecord("off_duty", blocks[1].end_time,
                                                    blocks[2].start_time, TRUE)
                         /\ blocks[2].start_time - blocks[1].end_time = 30

\* a trip of 25 hours has been planned: day 0 has blocks of 7 and 3 hours,
\* day 1 blocks of 8 and 3 hours
C25_Witness ==
    /\ Planned
    /\ PlannedMinutes = 25 * 60
    /\ LET start == trips[last.trip].start_date
           day0 == DrivingBlocks(logs[<<last.key[1], start>>])
           day1 == DrivingBlocks(logs[<<last.key[1], start + 1>>])
       IN /\ <<Duration(day0[1]), Duration(day0[2])>> = <<7 * 60, 3 * 60>>
          /\ <<Duration(day1[1]), Duration(day1[2])>> = <<8 * 60, 3 * 60>>

----------------------------------------------------------------------------
(* C26: in every schedule generated for a positive total_trip_hours, a     *)
(* 60-minute on-duty pickup interval precedes the driving of day 0 and of  *)
(* no other day, a 60-minute on-duty dropoff interval follows the driving  *)
(* of the final day (day_number = floor(total_trip_hours / 11)) and of no  *)
(* other day, and every day starts with the pre-trip inspection at 06:00   *)
(* and ends with the post-trip inspection followed by off-duty rest.       *)
\* indexes of the 60-minute on-duty intervals of a log
HourOnDuty(log) ==
    {i \in DOMAIN log.records :
        log.records[i].duty_status = "on_duty_not_driving" /\ Duration(log.records[i]) = 60}

DrivingIndexes(log) == {i \in DOMAIN log.records : log.records[i].duty_status = "driving"}

HasPickup(log) == \E i \in HourOnDuty(log) : \A j \in DrivingIndexes(log) : i < j

HasDropoff(log) == \E i \in HourOnDuty(log) : \A j \in DrivingIndexes(log) : j < i

C26_PickupAndDropoff ==
    (Planned /\ PlannedMinutes > 0) =>
        \A key \in last.created :
            LET log == logs[key]
                n == Len(log.records)
                day == key[2] - trips[last.trip].start_date
            IN /\ HasPickup(log) = (day = 0)
               /\ HasDropoff(log) = (day = PlannedMinutes \div (11 * 60))
               /\ n >= 3
               /\ log.records[1]
                    = DutyStatusRecord("on_duty_not_driving", key[2] * 1440 + 360,
                                       key[2] * 1440 + 375, TRUE)
               /\ log.records[n - 1].duty_status = "on_duty_not_driving"
               /\ Duration(log.records[n - 1]) = 15
               /\ log.records[n].duty_status = "off_duty"

----------------------------------------------------------------------------
(* C29: for a trip whose schedule spans several daily logs, start_trip     *)
(* appends its on_duty_not_driving record to the trip's log of the         *)
(* earliest date and complete_trip appends its off_duty record to the      *)
(* trip's log of the latest date.                                          *)
C29_FirstAndLastLog ==
    (last.ok /\ last.trip # NoTrip /\ Cardinality(TripLogDates(last.trip)) > 1) =>
        /\ last.op = "start_trip" =>
              /\ \A date \in TripLogDates(last.trip) : last.key[2] <= date
              /\ \E i \in DOMAIN logs[last.key].records :
                    logs[last.key].records[i].duty_status = "on_duty_not_driving"
                    /\ logs[last.key].records[i].start_time = last.start_time
        /\ last.op = "complete_trip" =>
              /\ \A date \in TripLogDates(last.trip) : last.key[2] >= date
              /\ \E i \in DOMAIN logs[last.key].records :
                    logs[last.key].records[i].duty_status = "off_duty"
                    /\ logs[last.key].records[i].start_time = last.start_time

----------------------------------------------------------------------------
(* C30: under any sequence of start_trip and complete_trip calls the       *)
(* status of a trip only moves planned -> in_progress -> completed:        *)
(* start_trip succeeds exactly from planned, complete_trip exactly from    *)
(* in_progress, and a rejected call changes no trip and no log.            *)
C30_TripLifecycle ==
    [][/\ last'.op \in {"start_trip", "complete_trip"} =>
            LET from == IF last'.op = "start_trip" THEN "planned" ELSE "in_progress"
                to == IF last'.op = "start_trip" THEN "in_progress" ELSE "completed"
            IN IF trips[last'.trip].status = from
               THEN last'.ok /\ trips'[last'.trip].status = to
               ELSE ~last'.ok /\ trips' = trips /\ logs' = logs
       /\ \A id \in DOMAIN trips :
            \/ trips'[id].status = trips[id].status
            \/ <<trips[id].status, trips'[id].status>>
                 \in {<<"planned", "in_progress">>, <<"in_progress", "completed">>}]_vars

\* a trip in progress has been refused a second start
C30_Witness ==
    /\ last.op = "start_trip"
    /\ ~last.ok
    /\ trips[last.trip].status = "in_progress"
    /\ trips[last.trip].actual_start_time # NoTime

----------------------------------------------------------------------------
(* C27: at each 8-hour mark the planner chooses daily_rest, of 600         *)
(* minutes, when the projected on-duty time (on-duty counter + 8 h) would  *)
(* exceed 14 hours or the projected driving time (driving counter + 8 h)   *)
(* would exceed 11 hours, and meal_break, of 30 minutes, otherwise; the    *)
(* stop records the two counters as they stood before it; and the choice   *)
(* does not depend on current_cycle_used: the first stop of a plan, before *)
(* which nothing is driven, is the one chosen with no cycle hours used.    *)
C27_RestStopChoice ==
    [][Len(planner'.rest_stops) = Len(planner.rest_stops) + 1 =>
         LET stop == planner'.rest_stops[Len(planner'.rest_stops)]
             rest == \/ planner.cumulative_duty + 8 * 60 > 14 * 60
                     \/ planner.cumulative_driving + 8 * 60 > 11 * 60
         IN /\ stop.rest_type = IF rest THEN "daily_rest" ELSE "meal_break"
            /\ stop.required_duration_minutes = IF rest THEN 600 ELSE 30
            /\ stop.hours_driven_before = planner.cumulative_driving
            /\ stop.hours_on_duty_before = planner.cumulative_duty
            /\ stop.sequence_order = 1 => stop.rest_type = rest_type(0, 0)]_vars

----------------------------------------------------------------------------
(* C28: the planner's loop terminates for every route duration and every   *)
(* current_cycle_used in [0, 70]: once entered, the planner returns.       *)
C28_PlannerTerminates == (planner.pc = "loop") ~> (planner.pc = "done")

====
